---- MODULE Spec2Model ----
(***************************************************************************)
(* Model of PDF-XML_to_HTML.py: the XFA tree interpreter                   *)
(* (build_ui_interpreter_stacked, process_element, extract_all_js) and the *)
(* JavaScript runtime it writes into the output document.                  *)
(*                                                                         *)
(* Text is modelled as a sequence of one-character strings, so that        *)
(* lower(), startswith(), endswith() and "in" are computed, not assumed.   *)
(* An element tree is a sequence of nodes in document order; each node     *)
(* names its parent by index (0 for the root).                             *)
(***************************************************************************)
EXTENDS Naturals, Sequences, FiniteSets, TLC

VARIABLES
    pool,              \* which documents the caller has: the name of a node pool
    tree,              \* xfa_xml: the element tree handed to the interpreter
    phase,             \* "input" | "built" | "loaded"
    cascade_required,  \* the nonlocal flag of build_ui_interpreter_stacked
    earlier_flag,      \* the value of the flag when the last run began (history)
    html_doc,          \* the document returned by the last run
    dom,               \* the browser's controls of the opened document
    defined,           \* the parts of the script section that have run
    input_listeners,   \* the controls that carry the linkage 'input' listener
    click_delegated,   \* the click listener is on document.body
    xfaRuntimeLoaded,  \* window.xfaRuntimeLoaded: "undefined" | "true"
    last               \* the last event of the browser session and its effects

ivars == <<pool, tree, phase, cascade_required, earlier_flag, html_doc>>
rvars == <<dom, defined, input_listeners, click_delegated, xfaRuntimeLoaded, last>>
vars == <<ivars, rvars>>

\* ------------------------------------------------------------------ bounds
MaxNodes == 3
MaxNameLen == 4
MaxAdded == 1

\* -------------------------------------------------------------------- text
Upper == <<"A","B","C","D","E","F","G","H","I","J","K","L","M",
           "N","O","P","Q","R","S","T","U","V","W","X","Y","Z">>
Lower == <<"a","b","c","d","e","f","g","h","i","j","k","l","m",
           "n","o","p","q","r","s","t","u","v","w","x","y","z">>

lower_char(c) ==
    IF \E i \in 1..Len(Upper) : Upper[i] = c
    THEN Lower[CHOOSE i \in 1..Len(Upper) : Upper[i] = c]
    ELSE c

\* str.lower()
lower(s) == [i \in 1..Len(s) |-> lower_char(s[i])]

\* str.startswith(prefix)
startswith(s, prefix) ==
    /\ Len(prefix) <= Len(s)
    /\ SubSeq(s, 1, Len(prefix)) = prefix

\* str.endswith(suffix)
endswith(s, suffix) ==
    /\ Len(suffix) <= Len(s)
    /\ SubSeq(s, Len(s) - Len(suffix) + 1, Len(s)) = suffix

\* sub in s
contains(s, sub) ==
    \E i \in 0..Len(s) :
        /\ i + Len(sub) <= Len(s)
        /\ SubSeq(s, i + 1, i + Len(sub)) = sub

\* str.strip(): the model's only whitespace character is " "
RECURSIVE lstrip(_)
lstrip(s) == IF s # <<>> /\ Head(s) = " " THEN lstrip(Tail(s)) ELSE s
RECURSIVE rstrip(_)
rstrip(s) ==
    IF s # <<>> /\ s[Len(s)] = " " THEN rstrip(SubSeq(s, 1, Len(s) - 1)) ELSE s
strip(s) == rstrip(lstrip(s))

\* sep.join(parts)
RECURSIVE join(_, _)
join(sep, parts) ==
    IF parts = <<>> THEN <<>>
    ELSE IF Len(parts) = 1 THEN parts[1]
    ELSE parts[1] \o sep \o join(sep, Tail(parts))

\* the literals of the source, as text
s_btn == <<"b","t","n">>
s_button == <<"b","u","t","t","o","n">>
s_text == <<"t","e","x","t">>
s_number == <<"n","u","m","b","e","r">>
s_radio == <<"r","a","d","i","o">>
s_checkbox == <<"c","h","e","c","k","b","o","x">>
s_subform == <<"s","u","b","f","o","r","m">>
s_field == <<"f","i","e","l","d">>
s_textedit == <<"t","e","x","t","e","d","i","t">>
s_numericedit == <<"n","u","m","e","r","i","c","e","d","i","t">>
s_choicelist == <<"c","h","o","i","c","e","l","i","s","t">>
s_draw == <<"d","r","a","w">>
s_exclgroup == <<"e","x","c","l","g","r","o","u","p">>
s_checkbutton == <<"c","h","e","c","k","b","u","t","t","o","n">>
s_item == <<"i","t","e","m">>
s_exclchoice == <<"e","x","c","l","c","h","o","i","c","e">>
s_script == <<"s","c","r","i","p","t">>
s_template == <<"t","e","m","p","l","a","t","e">>
d_Subform == <<"S","u","b","f","o","r","m">>
d_UnnamedField == <<"U","n","n","a","m","e","d","F","i","e","l","d">>
d_Button == <<"B","u","t","t","o","n">>
d_TextEdit == <<"T","e","x","t","E","d","i","t">>
d_NumericEdit == <<"N","u","m","e","r","i","c","E","d","i","t">>
d_ChoiceList == <<"C","h","o","i","c","e","L","i","s","t">>
d_ExclGroup == <<"E","x","c","l","G","r","o","u","p">>
d_CheckButton == <<"C","h","e","c","k","B","u","t","t","o","n">>

\* the namespace of the template and script lookups; "" is no namespace
XFA_NS == "http://www.xfa.org/schema/xfa-template/3.3/"

\* ------------------------------------------------------------ element tree
\* An optional value (an attribute, el.text) is <<>> for None or <<v>>.
None == <<>>
Some(v) == <<v>>

\* the attributes process_element reads
NoAttrs == [name |-> None, label |-> None, value |-> None, type |-> None,
            uiType |-> None, cascade |-> None]

\* el.get(key) / el.get(key, default)
get(el, key, default) == IF el.attrs[key] = None THEN default ELSE el.attrs[key][1]

\* Python truthiness of an optional string: neither None nor ""
truthy(opt) == opt # None /\ opt[1] # <<>>

\* el.text or default
text_or(el, default) == IF truthy(el.text) THEN el.text[1] ELSE default

\* for child in el: the children of node i, in document order
children(tr, i) ==
    SelectSeq([k \in 1..Len(tr) |-> k], LAMBDA j : tr[j].parent = i)

\* the proper descendants of node i in document order, as ElementPath's ".//"
\* walks them (el.iter() without el itself)
RECURSIVE iter_below(_, _)
RECURSIVE iter_each(_, _)
iter_below(tr, i) == iter_each(tr, children(tr, i))
iter_each(tr, kids) ==
    IF kids = <<>> THEN <<>>
    ELSE <<Head(kids)>> \o iter_below(tr, Head(kids)) \o iter_each(tr, Tail(kids))

\* el.findall(".//{ns}local"): descendants of node i whose tag is exactly the
\* given one (namespace and case included); comments never match
findall(tr, i, ns, local) ==
    SelectSeq(iter_below(tr, i),
              LAMBDA j : tr[j].isElement /\ tr[j].ns = ns /\ tr[j].local = local)

\* el.find(...): the first match, or 0 for None
find(tr, i, ns, local) ==
    LET found == findall(tr, i, ns, local)
    IN IF found = <<>> THEN 0 ELSE found[1]

\* ------------------------------------------------------ output markup
\* One emitted markup element (an entry of html_parts, or an option/label
\* inside one). `node` is the index of the tree node whose rule emitted it:
\* bookkeeping of the model, not text of the output.
Tok == [el |-> "", cls |-> "", style |-> "", type |-> <<>>, id |-> <<>>,
        name |-> <<>>, value |-> <<>>, htmlFor |-> <<>>, cascade_attr |-> None,
        text |-> <<>>, node |-> 0]

\* cascade = el.get("cascade"); cascade_attr = f" data-cascade='{cascade}'" if
\* cascade else ""
cascade_attr_of(el) ==
    IF truthy(el.attrs.cascade) THEN Some(el.attrs.cascade[1]) ELSE None

\* if cascade: cascade_required = True
flag_after(el, flag) == IF truthy(el.attrs.cascade) THEN TRUE ELSE flag

\* faulty variant: the name tested without lower()
renders_as_button_cased(field_name, ui_type) ==
    \/ contains(ui_type, s_button)
    \/ startswith(field_name, s_btn)
    \/ startswith(field_name, s_button)
    \/ endswith(field_name, s_btn)

\* Render as button if uiType indicates button OR name starts/ends with 'btn'
renders_as_button(field_name, ui_type) ==
    \/ contains(ui_type, s_button)
    \/ startswith(lower(field_name), s_btn)
    \/ startswith(lower(field_name), s_button)
    \/ endswith(lower(field_name), s_btn)

\* elif tag == "field"
render_field(el, i) ==
    LET field_name == get(el, "name", d_UnnamedField)
        field_label == get(el, "label", field_name)
        field_value == get(el, "value", <<>>)
        field_type == get(el, "type", s_text)
        ui_type == lower(get(el, "uiType", <<>>))
    IN IF renders_as_button(field_name, ui_type)
       THEN << [Tok EXCEPT !.el = "div", !.cls = "field", !.node = i],
               [Tok EXCEPT !.el = "button", !.type = s_button, !.id = field_name,
                           !.name = field_name, !.cascade_attr = cascade_attr_of(el),
                           !.text = field_label, !.node = i],
               [Tok EXCEPT !.el = "/div", !.node = i] >>
       ELSE << [Tok EXCEPT !.el = "div", !.cls = "field", !.node = i],
               [Tok EXCEPT !.el = "label", !.htmlFor = field_name,
                           !.text = field_label, !.node = i],
               [Tok EXCEPT !.el = "input", !.type = field_type, !.id = field_name,
                           !.name = field_name, !.value = field_value,
                           !.cascade_attr = cascade_attr_of(el), !.node = i],
               [Tok EXCEPT !.el = "/div", !.node = i] >>

\* elif tag == "button": the markup carries no cascade_attr
render_button(el, i) ==
    LET btn_text == text_or(el, d_Button)
        btn_id == get(el, "name", s_button)
    IN << [Tok EXCEPT !.el = "div", !.cls = "button", !.node = i],
          [Tok EXCEPT !.el = "button", !.type = s_button, !.id = btn_id,
                      !.name = btn_id, !.text = btn_text, !.node = i],
          [Tok EXCEPT !.el = "/div", !.node = i] >>

\* elif tag == "text"
render_text(el, i) ==
    << [Tok EXCEPT !.el = "div", !.cls = "static-text",
                   !.text = text_or(el, <<>>), !.node = i] >>

\* elif tag == "textedit"
render_textedit(el, i) ==
    LET field_name == get(el, "name", d_TextEdit)
        field_value == get(el, "value", <<>>)
    IN << [Tok EXCEPT !.el = "div", !.cls = "textedit", !.node = i],
          [Tok EXCEPT !.el = "input", !.type = s_text, !.id = field_name,
                      !.name = field_name, !.value = field_value,
                      !.cascade_attr = cascade_attr_of(el), !.node = i],
          [Tok EXCEPT !.el = "/div", !.node = i] >>

\* elif tag == "numericedit"
render_numericedit(el, i) ==
    LET field_name == get(el, "name", d_NumericEdit)
        field_value == get(el, "value", <<>>)
    IN << [Tok EXCEPT !.el = "div", !.cls = "numericedit", !.node = i],
          [Tok EXCEPT !.el = "input", !.type = s_number, !.id = field_name,
                      !.name = field_name, !.value = field_value,
                      !.cascade_attr = cascade_attr_of(el), !.node = i],
          [Tok EXCEPT !.el = "/div", !.node = i] >>

\* option_value = item.get("value", item.text or ""); the second name is
\* option_text (choiceList) or option_label (exclGroup) = item.text or option_value
option_value(item) == get(item, "value", text_or(item, <<>>))
option_text(item) == text_or(item, option_value(item))

\* faulty variant: "./item", the direct children only
choice_items_direct(tr, i) ==
    SelectSeq(children(tr, i),
              LAMBDA j : tr[j].isElement /\ tr[j].ns = "" /\ tr[j].local = s_item)

\* for item in el.findall(".//item")
choice_items(tr, i) == findall(tr, i, "", s_item)

\* elif tag == "choicelist"
render_choicelist(tr, el, i) ==
    LET field_name == get(el, "name", d_ChoiceList)
        items == choice_items(tr, i)
    IN << [Tok EXCEPT !.el = "div", !.cls = "choicelist", !.node = i],
          [Tok EXCEPT !.el = "label", !.htmlFor = field_name,
                      !.text = field_name, !.node = i],
          [Tok EXCEPT !.el = "select", !.id = field_name, !.name = field_name,
                      !.cascade_attr = cascade_attr_of(el), !.node = i] >>
       \o [k \in 1..Len(items) |->
              [Tok EXCEPT !.el = "option", !.value = option_value(tr[items[k]]),
                          !.text = option_text(tr[items[k]]), !.node = i]]
       \o << [Tok EXCEPT !.el = "/select", !.node = i],
             [Tok EXCEPT !.el = "/div", !.node = i] >>

\* for choice in el.findall(".//exclchoice")
excl_choices(tr, i) == findall(tr, i, "", s_exclchoice)

\* elif tag == "exclgroup": a label holding a radio input per choice
render_exclgroup(tr, el, i) ==
    LET group_name == get(el, "name", d_ExclGroup)
        choices == excl_choices(tr, i)
    IN << [Tok EXCEPT !.el = "div", !.cls = "exclgroup", !.node = i] >>
       \o [k \in 1..Len(choices) |->
              [Tok EXCEPT !.el = "input", !.type = s_radio, !.name = group_name,
                          !.value = option_value(tr[choices[k]]),
                          !.cascade_attr = cascade_attr_of(el),
                          !.text = option_text(tr[choices[k]]), !.node = i]]
       \o << [Tok EXCEPT !.el = "/div", !.node = i] >>

\* elif tag == "checkbutton"
render_checkbutton(el, i) ==
    LET field_name == get(el, "name", d_CheckButton)
    IN << [Tok EXCEPT !.el = "div", !.cls = "checkbutton", !.node = i],
          [Tok EXCEPT !.el = "input", !.type = s_checkbox, !.id = field_name,
                      !.name = field_name, !.cascade_attr = cascade_attr_of(el),
                      !.text = field_name, !.node = i],
          [Tok EXCEPT !.el = "/div", !.node = i] >>

\* process_element(el): the fragment and the flag it leaves behind.
\* "\n".join(html_parts) is the concatenation of the parts' elements.
RECURSIVE process_element(_, _, _)
RECURSIVE process_each(_, _, _)

\* faulty variant: the loop over the children ends at the first child that is
\* not an element, as if its failure were not caught
process_each_to_foreign(tr, kids, flag) ==
    IF kids = <<>> \/ ~tr[Head(kids)].isElement THEN [html |-> <<>>, flag |-> flag]
    ELSE LET first == process_element(tr, Head(kids), flag)
             rest == process_each(tr, Tail(kids), first.flag)
         IN [html |-> first.html \o rest.html, flag |-> rest.flag]

\* for child in el: html_parts.append(process_element(child))
process_each(tr, kids, flag) ==
    IF kids = <<>> THEN [html |-> <<>>, flag |-> flag]
    ELSE LET first == process_element(tr, Head(kids), flag)
             rest == process_each(tr, Tail(kids), first.flag)
         IN [html |-> first.html \o rest.html, flag |-> rest.flag]
process_element(tr, i, flag) ==
    LET el == tr[i]
        tag == lower(el.local)
        flag1 == flag_after(el, flag)
        inner == process_each(tr, children(tr, i), flag1)
        leaf(html) == [html |-> html, flag |-> flag1]
    IN IF ~el.isElement THEN [html |-> <<>>, flag |-> flag]
       ELSE IF tag = s_subform THEN
           [html |-> << [Tok EXCEPT !.el = "div", !.cls = "subform", !.node = i],
                        [Tok EXCEPT !.el = "h2", !.text = get(el, "name", d_Subform),
                                    !.node = i] >>
                     \o inner.html
                     \o << [Tok EXCEPT !.el = "/div", !.node = i] >>,
            flag |-> inner.flag]
       ELSE IF tag = s_field THEN leaf(render_field(el, i))
       ELSE IF tag = s_button THEN leaf(render_button(el, i))
       ELSE IF tag = s_text THEN leaf(render_text(el, i))
       ELSE IF tag = s_textedit THEN leaf(render_textedit(el, i))
       ELSE IF tag = s_numericedit THEN leaf(render_numericedit(el, i))
       ELSE IF tag = s_choicelist THEN leaf(render_choicelist(tr, el, i))
       ELSE IF tag = s_draw THEN
           [html |-> << [Tok EXCEPT !.el = "div", !.cls = "draw",
                                    !.style = "border:1px solid #aaa; padding:5px;",
                                    !.node = i] >>
                     \o (IF truthy(el.text) /\ strip(el.text[1]) # <<>>
                         THEN << [Tok EXCEPT !.el = "span",
                                             !.text = strip(el.text[1]), !.node = i] >>
                         ELSE <<>>)
                     \o inner.html
                     \o << [Tok EXCEPT !.el = "/div", !.node = i] >>,
            flag |-> inner.flag]
       ELSE IF tag = s_exclgroup THEN leaf(render_exclgroup(tr, el, i))
       ELSE IF tag = s_checkbutton THEN leaf(render_checkbutton(el, i))
       ELSE inner

\* ------------------------------------------------------- script section
\* A script is a sequence of statements; the literals of the source are the
\* sequences of the definitions they hold, in the order they are written.
NL == "\n"

\* js_parts: the text of each matching element with non-empty text
RECURSIVE script_texts(_, _)
script_texts(tr, found) ==
    IF found = <<>> THEN <<>>
    ELSE (IF truthy(tr[Head(found)].text) THEN <<tr[Head(found)].text[1]>> ELSE <<>>)
         \o script_texts(tr, Tail(found))

\* for script_el in xfa_xml.findall(".//{http://www.xfa.org/schema/xfa-template/3.3/}script")
script_elements(tr) == findall(tr, 1, XFA_NS, s_script)

extract_all_js(tr) == join(<<NL>>, script_texts(tr, script_elements(tr)))

cascade_js_text == <<"cascade_js:DOMContentLoaded">>
adapter == <<"schCar", "translateAcrobatJS">>
xfa_runtime_js == <<"window.xfa", "window.xfa.host", "window.xfa.form", "window.xfa.font",
                    "executeXFAJavaScript", "window.xfa.advanced">>
default_bindings_js == <<"default_bindings_js:DOMContentLoaded">>

\* faulty variant: the original scripts appended after the bindings
ui_js_scripts_last(all_js) ==
    adapter \o <<NL>> \o xfa_runtime_js \o <<NL>> \o default_bindings_js \o <<NL>> \o all_js

\* ui_js = adapter + "\n" + xfa_runtime_js + "\n" + all_js + "\n" + default_bindings_js
ui_js(all_js) ==
    adapter \o <<NL>> \o xfa_runtime_js \o <<NL>> \o all_js \o <<NL>> \o default_bindings_js

\* cascade_js = "" unless cascade_required
cascade_js(required) == IF required THEN cascade_js_text ELSE <<>>

\* full_js = cascade_js + "\n" + ui_js
full_js(required, all_js) == cascade_js(required) \o <<NL>> \o ui_js(all_js)

\* ------------------------------------------------------- the interpreter
ui_title == "Stacked Interpreted XFA Form"

\* faulty variant: the flag is module state that no call resets
initial_cascade_required_kept(previous) == previous

\* cascade_required = False, whatever an earlier call left behind
initial_cascade_required(previous) == FALSE

\* template = xfa_xml.find(".//{...}template"); if template is None: template = xfa_xml
template_of(tr) ==
    LET t == find(tr, 1, XFA_NS, s_template) IN IF t = 0 THEN 1 ELSE t

NoDoc == [title |-> "", body |-> <<>>, script |-> <<>>]

\* the call build_ui_interpreter_stacked(xfa_xml): the flag at its end and html_doc
build_ui_interpreter_stacked(tr, previous) ==
    LET run == process_element(tr, template_of(tr), initial_cascade_required(previous))
        body_content == << [Tok EXCEPT !.el = "div", !.cls = "xfa-container"] >>
                        \o run.html \o << [Tok EXCEPT !.el = "/div"] >>
    IN [flag |-> run.flag,
        doc |-> [title |-> ui_title,
                 body |-> body_content,
                 script |-> full_js(run.flag, extract_all_js(tr))]]

\* ------------------------------------------------- the generated runtime
\* A script is a sequence of statements. The statements the model tells apart:
\* one that throws, a call of app.alert, its translation, and any other.
st_throw == "throw new Error('x');"
st_alert == "app.alert('hi');"
st_messageBox == "window.xfa.host.messageBox('hi');"

NoEffect == [ran |-> <<>>, messages |-> <<>>, threw |-> FALSE]

\* window.xfa.host.messageBox(message): alert(message)
Message(text, id) == [text |-> text, id |-> id]

\* running statements in order until one throws: the statements that ran, the
\* message boxes shown, whether an exception left the script. `app` is not
\* defined in a browser; window.xfa.host exists once the runtime part has run.
RECURSIVE Exec(_, _)
Exec(code, defs) ==
    IF code = <<>> THEN NoEffect
    ELSE LET st == Head(code)
             throws == \/ st = st_throw
                       \/ st = st_alert
                       \/ st = st_messageBox /\ "window.xfa.host" \notin defs
             rest == Exec(Tail(code), defs)
         IN IF throws THEN [NoEffect EXCEPT !.threw = TRUE]
            ELSE [ran |-> <<st>> \o rest.ran,
                  messages |-> (IF st = st_messageBox THEN <<Message("hi", <<>>)>>
                                ELSE <<>>) \o rest.messages,
                  threw |-> rest.threw]

\* acrobatJS.replace(/app\.alert/g, "window.xfa.host.messageBox")
translateAcrobatJS(acrobatJS) ==
    [k \in 1..Len(acrobatJS) |->
        IF acrobatJS[k] = st_alert THEN st_messageBox ELSE acrobatJS[k]]

\* new Function(src): a function with that body; f(): its statements run
NewFunction(body) == [kind |-> "function", body |-> body]
Call(f, defs) == Exec(f.body, defs)

\* await v: a promise is waited for; any other value (a function object too)
\* is the result at once
Await(v) == IF v.kind = "promise" THEN v.settled ELSE NoEffect

\* function executeXFAJavaScript(jsCode): try { new Function(jsCode)(); }
\* catch (error) { console.error(...) }
executeXFAJavaScript(jsCode, defs) ==
    LET r == Call(NewFunction(jsCode), defs)
    IN [ran |-> r.ran, messages |-> r.messages, logged |-> r.threw, escaped |-> FALSE]

\* async executeAsync(jsCode): asyncFunc is what
\* new Function('return (async () => {' + jsCode + '})')() returns: the arrow
\* function itself, which nothing calls; await asyncFunc awaits that function
executeAsync(jsCode, defs) ==
    LET asyncFunc == NewFunction(jsCode)
        r == Await(asyncFunc)
    IN [ran |-> r.ran, messages |-> r.messages, logged |-> r.threw, escaped |-> FALSE]

\* the controls the browser builds from the markup. A select shows its first
\* option; a button has no value attribute.
option_values(body, i) ==
    LET opts == SelectSeq(body, LAMBDA t : t.el = "option" /\ t.node = i)
    IN [k \in 1..Len(opts) |-> opts[k].value]

control_of(body, t) ==
    [tagName |-> t.el, id |-> t.id, cascade |-> t.cascade_attr,
     value |-> (IF t.el = "input" THEN t.value
                ELSE IF t.el = "select" /\ option_values(body, t.node) # <<>>
                THEN option_values(body, t.node)[1]
                ELSE <<>>),
     options |-> (IF t.el = "select" THEN option_values(body, t.node) ELSE <<>>),
     acrobat |-> None, rendered |-> TRUE]

controls_of(body) ==
    LET toks == SelectSeq(body, LAMBDA t : t.el \in {"input", "button", "select"})
    IN [k \in 1..Len(toks) |-> control_of(body, toks[k])]

\* the script section runs top to bottom; an uncaught exception ends it, and
\* what follows in the same script element never runs
RECURSIVE run_section(_)
run_section(script) ==
    IF script = <<>> THEN {}
    ELSE IF Head(script) = st_throw \/ Head(script) = st_alert THEN {}
    ELSE {Head(script)} \cup run_section(Tail(script))

\* document.querySelectorAll("input[data-cascade], button[data-cascade]")
cascade_selector(d) ==
    { c \in 1..Len(d) : d[c].tagName \in {"input", "button"} /\ d[c].cascade # None }

\* querySelectorAll("input[data-cascade='" + group + "'], button[data-cascade='" + group + "']")
cascade_group_selector(d, group) ==
    { c \in 1..Len(d) : d[c].tagName \in {"input", "button"} /\ d[c].cascade = Some(group) }

\* the 'input' listener of control c: cInput.value = input.value for every
\* cInput of the group but input itself
cascade_listener(d, c) ==
    LET group == d[c].cascade[1]
        cascadeInputs == cascade_group_selector(d, group)
    IN [k \in 1..Len(d) |->
           IF k \in cascadeInputs /\ k # c THEN [d[k] EXCEPT !.value = d[c].value]
           ELSE d[k]]

NoEvent == [event |-> "none", target |-> 0, code |-> <<>>, before |-> <<>>,
            ran |-> <<>>, messages |-> <<>>, logged |-> FALSE, escaped |-> FALSE,
            handled |-> FALSE]

NoPage ==
    /\ dom = <<>>
    /\ defined = {}
    /\ input_listeners = {}
    /\ click_delegated = FALSE
    /\ xfaRuntimeLoaded = "undefined"
    /\ last = NoEvent

\* ----------------------------------------------------------- input trees
\* tag names as XFA documents spell them
t_choiceList == <<"c","h","o","i","c","e","L","i","s","t">>
t_textEdit == <<"t","e","x","t","E","d","i","t">>
t_numericEdit == <<"n","u","m","e","r","i","c","E","d","i","t">>
t_exclGroup == <<"e","x","c","l","G","r","o","u","p">>
t_checkButton == <<"c","h","e","c","k","B","u","t","t","o","n">>
t_Item == <<"I","t","e","m">>
t_body == <<"b","o","d","y">>

Elem(ns, local, attrs, text) ==
    [isElement |-> TRUE, ns |-> ns, local |-> local, attrs |-> attrs,
     text |-> text, parent |-> 0]

\* a comment or processing instruction: its tag is no name, so process_element
\* leaves by one of its first two returns (the isinstance test, or the
\* exception QName raises and the except clause catches)
Comment ==
    [isElement |-> FALSE, ns |-> "", local |-> <<>>, attrs |-> NoAttrs,
     text |-> None, parent |-> 0]

g1 == <<"g","1">>
g2 == <<"g","2">>
WithCascade(group) == [NoAttrs EXCEPT !.cascade = Some(group)]
Named(n) == [NoAttrs EXCEPT !.name = Some(n)]
NamedCascade(n, group) == [NoAttrs EXCEPT !.name = Some(n), !.cascade = Some(group)]

\* the node shapes of the interpreter's specification: every element kind, with
\* and without the cascade attribute, script elements and a comment
PoolGeneral ==
    { Elem(XFA_NS, s_template, NoAttrs, None),
      Elem(XFA_NS, s_subform, Named(<<"P">>), None),
      Elem(XFA_NS, s_subform, WithCascade(g1), None),
      Elem(XFA_NS, s_field, Named(<<"f">>), None),
      Elem(XFA_NS, s_field, NamedCascade(<<"f">>, g1), None),
      Elem(XFA_NS, s_field, NamedCascade(<<"b","t","n","A">>, g1), None),
      Elem(XFA_NS, s_button, Named(<<"b">>), Some(<<"O","K">>)),
      Elem(XFA_NS, s_button, NamedCascade(<<"b">>, g1), None),
      Elem(XFA_NS, s_text, WithCascade(g1), Some(<<"h","i">>)),
      Elem(XFA_NS, t_textEdit, NamedCascade(<<"t">>, g1), None),
      Elem(XFA_NS, t_numericEdit, NamedCascade(<<"n">>, g2), None),
      Elem(XFA_NS, t_choiceList, NamedCascade(<<"c">>, g1), None),
      Elem("", s_item, NoAttrs, Some(<<"x">>)),
      Elem(XFA_NS, t_exclGroup, NamedCascade(<<"e">>, g1), None),
      Elem("", s_exclchoice, WithCascade(g2), Some(<<"y">>)),
      Elem(XFA_NS, t_checkButton, NamedCascade(<<"k">>, g1), None),
      Elem(XFA_NS, s_draw, NoAttrs, Some(<<" ","d"," ">>)),
      Elem(XFA_NS, s_script, NoAttrs, Some(<<"a;">>)),
      Elem(XFA_NS, s_script, NoAttrs, Some(<<"b;">>)),
      Elem(XFA_NS, s_script, NoAttrs, None),
      Elem("", s_script, NoAttrs, Some(<<"c;">>)),
      Elem(XFA_NS, t_body, WithCascade(g2), None),
      Comment }

\* repeated runs and the script section: containers, fields with and without
\* the cascade attribute, script elements
PoolRuns ==
    { Elem(XFA_NS, s_template, NoAttrs, None),
      Elem(XFA_NS, s_subform, Named(<<"P">>), None),
      Elem(XFA_NS, s_field, Named(<<"f">>), None),
      Elem(XFA_NS, s_field, NamedCascade(<<"f">>, g1), None),
      Elem(XFA_NS, t_textEdit, NamedCascade(<<"t">>, g2), None),
      Elem(XFA_NS, s_script, NoAttrs, Some(<<"a;">>)),
      Elem(XFA_NS, s_script, NoAttrs, Some(<<"b;">>)) }

\* the field rule: every name over a small alphabet, with the other attributes
\* the rule reads
NameAlphabet == {"b", "t", "n", "B", "T", "x"}
Names == UNION { [1..k -> NameAlphabet] : k \in 0..MaxNameLen }
FieldProfiles ==
    { NoAttrs,
      [NoAttrs EXCEPT !.type = Some(s_number), !.value = Some(<<"7">>)],
      [NoAttrs EXCEPT !.label = Some(<<"L">>), !.uiType = Some(<<"T","e","x","t">>),
                      !.cascade = Some(g1)],
      [NoAttrs EXCEPT !.uiType = Some(<<"B","u","t","t","o","n">>)] }
FieldNodes ==
    { Elem(XFA_NS, s_field, [a EXCEPT !.name = Some(n)], None) :
          n \in Names, a \in FieldProfiles }
    \cup { Elem(XFA_NS, s_field, a, None) : a \in FieldProfiles }

\* the choice-list rule: items with and without value and text, nested under
\* items and containers, and tags that differ from "item" in case or namespace
PoolChoice ==
    { Elem(XFA_NS, t_choiceList, Named(<<"c">>), None),
      Elem(XFA_NS, s_subform, NoAttrs, None),
      Elem("", s_item, NoAttrs, Some(<<"x">>)),
      Elem("", s_item, [NoAttrs EXCEPT !.value = Some(<<"v">>)], Some(<<"y">>)),
      Elem("", s_item, [NoAttrs EXCEPT !.value = Some(<<"w">>)], None),
      Elem("", s_item, NoAttrs, None),
      Elem("", t_Item, NoAttrs, Some(<<"z">>)),
      Elem(XFA_NS, s_item, NoAttrs, Some(<<"q">>)) }

\* the fall-through rule: tags outside the ten kinds (with a cascade attribute,
\* with text), a kind spelled in mixed case, containers, leaves and a comment
t_area == <<"a","r","e","a">>
PoolForeign ==
    { Elem(XFA_NS, s_template, NoAttrs, None),
      Elem(XFA_NS, s_subform, Named(<<"P">>), None),
      Elem(XFA_NS, t_body, WithCascade(g2), None),
      Elem("", t_area, NoAttrs, Some(<<"x">>)),
      Elem(XFA_NS, s_field, Named(<<"f">>), None),
      Elem(XFA_NS, t_textEdit, Named(<<"t">>), None),
      Elem(XFA_NS, s_text, NoAttrs, Some(<<"h","i">>)),
      Elem(XFA_NS, s_draw, NoAttrs, Some(<<" ","d"," ">>)),
      Comment }

\* the node shapes of a pool
Nodes(name) ==
    CASE name = "general" -> PoolGeneral
      [] name = "runs" -> PoolRuns
      [] name = "choice" -> PoolChoice
      [] name = "foreign" -> PoolForeign
      [] OTHER -> {}

\* the nodes a new node may hang under: the last node and its ancestors, so
\* that the sequence stays in document order; a comment has no children
RECURSIVE ancestors_or_self(_, _)
ancestors_or_self(tr, i) ==
    IF i = 0 THEN {} ELSE {i} \cup ancestors_or_self(tr, tr[i].parent)

open_nodes(tr) == { i \in ancestors_or_self(tr, Len(tr)) : tr[i].isElement }

\* -------------------------------------------------------------- actions
\* the caller's tree grows by one node
AddNode(n, p) ==
    /\ phase = "input"
    /\ Len(tree) < MaxNodes
    /\ tree' = Append(tree, [n EXCEPT !.parent = p])
    /\ UNCHANGED <<pool, phase, cascade_required, earlier_flag, html_doc>>
    /\ UNCHANGED rvars

\* ui_html = build_ui_interpreter_stacked(xfa_xml)
BuildUI ==
    /\ phase = "input"
    /\ LET r == build_ui_interpreter_stacked(tree, cascade_required)
       IN /\ cascade_required' = r.flag
          /\ html_doc' = r.doc
    /\ earlier_flag' = cascade_required
    /\ phase' = "built"
    /\ UNCHANGED <<pool, tree>>
    /\ UNCHANGED rvars

\* the caller parses another document for the next call
NewInput(n) ==
    /\ phase = "built"
    /\ tree' = <<n>>
    /\ html_doc' = NoDoc
    /\ phase' = "input"
    /\ UNCHANGED <<pool, cascade_required, earlier_flag>>
    /\ UNCHANGED rvars

Roots(nodes) == { <<n>> : n \in { m \in nodes : m.isElement } }

InitWith(name, roots) ==
    /\ pool = name
    /\ tree \in Roots(roots)
    /\ phase = "input"
    /\ cascade_required = FALSE
    /\ earlier_flag = FALSE
    /\ html_doc = NoDoc
    /\ NoPage

Init == InitWith("general", PoolGeneral)

Next ==
    \/ \E n \in Nodes(pool) : \E p \in open_nodes(tree) : AddNode(n, p)
    \/ BuildUI
    \/ \E n \in { m \in Nodes(pool) : m.isElement } : NewInput(n)

Spec == Init /\ [][Next]_vars

\* ----------------------------------------------- the other specifications
InitRuns == InitWith("runs", PoolRuns)
SpecRuns == InitRuns /\ [][Next]_vars

\* a document of one field; no node is added to it
InitField == InitWith("field", FieldNodes)
NextField == BuildUI
SpecField == InitField /\ [][NextField]_vars

InitChoice == InitWith("choice", PoolChoice)
SpecChoice == InitChoice /\ [][Next]_vars

InitForeign == InitWith("foreign", PoolForeign)
SpecForeign == InitForeign /\ [][Next]_vars

\* --------------------------------------------------- the browser session
\* a tree from its nodes and their parents
Doc(nodes, parents) == [k \in 1..Len(nodes) |-> [nodes[k] EXCEPT !.parent = parents[k]]]

n_subform == Elem(XFA_NS, s_subform, Named(<<"P">>), None)
n_field_g1 == Elem(XFA_NS, s_field, NamedCascade(<<"f">>, g1), None)
n_btnField == Elem(XFA_NS, s_field, Named(<<"b","t","n","A">>), None)

\* the documents opened in the browser: linked controls of every control
\* type, buttons, and original scripts that run through or throw when loaded
RuntimeDocs ==
    { Doc(<<n_subform, n_field_g1,
            Elem(XFA_NS, t_choiceList, NamedCascade(<<"c">>, g1), None),
            Elem("", s_item, NoAttrs, Some(<<"v">>)),
            Elem("", s_item, NoAttrs, Some(<<"w">>))>>, <<0, 1, 1, 3, 3>>),
      Doc(<<n_subform, n_field_g1,
            Elem(XFA_NS, t_textEdit, NamedCascade(<<"t">>, g1), None),
            Elem(XFA_NS, t_numericEdit, NamedCascade(<<"n">>, g2), None)>>,
          <<0, 1, 1, 1>>),
      Doc(<<n_subform, n_field_g1,
            Elem(XFA_NS, s_field, NamedCascade(<<"b","t","n","B">>, g1), None)>>,
          <<0, 1, 1>>),
      Doc(<<n_subform, n_btnField,
            Elem(XFA_NS, s_button, Named(<<"b">>), Some(<<"O","K">>))>>, <<0, 1, 1>>),
      Doc(<<n_subform, Elem(XFA_NS, s_script, NoAttrs, Some(<<"a;">>)), n_btnField>>,
          <<0, 1, 1>>),
      Doc(<<n_subform, Elem(XFA_NS, s_script, NoAttrs, Some(<<st_throw>>)), n_btnField>>,
          <<0, 1, 1>>) }

\* what a user types or picks
Values == {<<"v">>, <<"w">>}

\* the script texts handed to the executors
Scripts == { <<"a;">>, <<"a;", st_throw, "b;">>, <<st_messageBox, "b;">> }

\* controls a script adds after the document has loaded
NewControl(tagName, id, cascade, acrobat) ==
    [tagName |-> tagName, id |-> id, cascade |-> cascade, value |-> <<>>,
     options |-> <<>>, acrobat |-> acrobat, rendered |-> FALSE]

DynamicControls ==
    { NewControl("button", <<"l","a","t","e">>, None, None),
      NewControl("button", <<"j","s">>, None, Some(<<st_alert, "b;">>)),
      NewControl("button", <<"b","a","d">>, None, Some(<<"a;", st_throw>>)),
      NewControl("input", <<"i">>, Some(g1), None) }

\* the browser opens the document: the script section runs, then
\* DOMContentLoaded calls the listeners the section registered
LoadPage ==
    /\ phase = "built"
    /\ LET ran == run_section(html_doc.script)
           d == controls_of(html_doc.body)
       IN /\ dom' = d
          /\ defined' = ran
          /\ input_listeners' =
                 IF cascade_js_text[1] \in ran THEN cascade_selector(d) ELSE {}
          /\ click_delegated' = (default_bindings_js[1] \in ran)
    /\ last' = [NoEvent EXCEPT !.event = "load"]
    /\ phase' = "loaded"
    /\ UNCHANGED <<pool, tree, cascade_required, earlier_flag, html_doc, xfaRuntimeLoaded>>

\* a script inserts a control into document.body
AddControl(c) ==
    /\ phase = "loaded"
    /\ Cardinality({ k \in 1..Len(dom) : ~dom[k].rendered }) < MaxAdded
    /\ dom' = Append(dom, c)
    /\ last' = [NoEvent EXCEPT !.event = "add"]
    /\ UNCHANGED <<ivars, defined, input_listeners, click_delegated, xfaRuntimeLoaded>>

\* the user changes control c to v: its 'input' event calls the listener
\* that was added to it, if any
InputEvent(c, v) ==
    /\ phase = "loaded"
    /\ \/ dom[c].tagName = "input"
       \/ dom[c].tagName = "select" /\ \E k \in 1..Len(dom[c].options) : dom[c].options[k] = v
    /\ LET changed == [dom EXCEPT ![c].value = v]
       IN dom' = IF c \in input_listeners THEN cascade_listener(changed, c) ELSE changed
    /\ last' = [NoEvent EXCEPT !.event = "input", !.target = c,
                               !.before = [k \in 1..Len(dom) |-> dom[k].value],
                               !.handled = (c \in input_listeners)]
    /\ UNCHANGED <<ivars, defined, input_listeners, click_delegated, xfaRuntimeLoaded>>

\* the user clicks control c: the event bubbles to document.body
Click(c) ==
    /\ phase = "loaded"
    /\ IF ~click_delegated \/ dom[c].tagName # "button"
       THEN /\ last' = [NoEvent EXCEPT !.event = "click", !.target = c]
            /\ UNCHANGED xfaRuntimeLoaded
       ELSE IF dom[c].acrobat # None
       THEN LET translatedJS == translateAcrobatJS(dom[c].acrobat[1])
                r == Call(NewFunction(translatedJS), defined)
            IN /\ xfaRuntimeLoaded' = "true"
               /\ last' = [NoEvent EXCEPT !.event = "click", !.target = c,
                                          !.code = translatedJS, !.ran = r.ran,
                                          !.messages = r.messages, !.logged = r.threw,
                                          !.handled = TRUE]
       ELSE /\ last' = [NoEvent EXCEPT !.event = "click", !.target = c,
                               !.messages = <<Message("Default action for ", dom[c].id)>>,
                               !.handled = TRUE]
            /\ UNCHANGED xfaRuntimeLoaded
    /\ UNCHANGED <<ivars, dom, defined, input_listeners, click_delegated>>

\* a caller runs window.xfa.advanced.executeAsync(jsCode)
ExecuteAsync(jsCode) ==
    /\ phase = "loaded"
    /\ "window.xfa.advanced" \in defined
    /\ LET r == executeAsync(jsCode, defined)
       IN last' = [NoEvent EXCEPT !.event = "executeAsync", !.code = jsCode,
                                  !.ran = r.ran, !.messages = r.messages,
                                  !.logged = r.logged, !.escaped = r.escaped,
                                  !.handled = TRUE]
    /\ UNCHANGED <<ivars, dom, defined, input_listeners, click_delegated, xfaRuntimeLoaded>>

\* a caller runs executeXFAJavaScript(jsCode)
ExecuteXFAJavaScript(jsCode) ==
    /\ phase = "loaded"
    /\ "executeXFAJavaScript" \in defined
    /\ LET r == executeXFAJavaScript(jsCode, defined)
       IN last' = [NoEvent EXCEPT !.event = "executeXFAJavaScript", !.code = jsCode,
                                  !.ran = r.ran, !.messages = r.messages,
                                  !.logged = r.logged, !.escaped = r.escaped,
                                  !.handled = TRUE]
    /\ UNCHANGED <<ivars, dom, defined, input_listeners, click_delegated, xfaRuntimeLoaded>>

InitRuntime ==
    /\ pool = "runtime"
    /\ tree \in RuntimeDocs
    /\ phase = "input"
    /\ cascade_required = FALSE
    /\ earlier_flag = FALSE
    /\ html_doc = NoDoc
    /\ NoPage

NextRuntime ==
    \/ BuildUI
    \/ LoadPage
    \/ \E c \in DynamicControls : AddControl(c)
    \/ \E c \in 1..Len(dom) : \E v \in Values : InputEvent(c, v)
    \/ \E c \in 1..Len(dom) : Click(c)
    \/ \E jsCode \in Scripts : ExecuteAsync(jsCode)
    \/ \E jsCode \in Scripts : ExecuteXFAJavaScript(jsCode)

SpecRuntime == InitRuntime /\ [][NextRuntime]_vars

\* ------------------------------------------------------------ observations
Indices(seq) == 1..Len(seq)
Index(seq, x) == CHOOSE k \in Indices(seq) : seq[k] = x
Occurrences(seq, x) == Cardinality({ k \in Indices(seq) : seq[k] = x })

\* the linkage-behaviour script is in the document
HasCascadeScript(doc) == \E k \in Indices(doc.script) : doc.script[k] = cascade_js_text[1]

\* what stands in the script section between the runtime and the dispatcher
AggregatedScript(doc) ==
    SubSeq(doc.script, Index(doc.script, "window.xfa.advanced") + 2,
           Index(doc.script, default_bindings_js[1]) - 2)

\* node i lies below node a (by the parent links, not by the tree walk)
Below(tr, i, a) == i # a /\ a \in ancestors_or_self(tr, i)

\* the markup the rule of node i emitted
EmittedBy(doc, i) == SelectSeq(doc.body, LAMBDA t : t.node = i)
Controls == {"input", "button", "select"}

\* ------------------------------------------------------------------ C1
HasCascadeAttribute(tr) ==
    \E i \in Indices(tr) : tr[i].isElement /\ tr[i].attrs.cascade # None

\* C1: after a run, the linkage-behaviour script is in the output document if
\* and only if some node anywhere in the input tree carries the cascade
\* attribute (below leaf kinds and outside the template subtree included).
C1_CascadeScriptIffAttributeAnywhere ==
    phase = "built" => (HasCascadeScript(html_doc) <=> HasCascadeAttribute(tree))

\* ------------------------------------------------------------------ C2
IsKind(node, kind) == node.isElement /\ lower(node.local) = kind

BtnAt(nm, k) ==
    /\ nm[k] \in {"b", "B"}
    /\ nm[k + 1] \in {"t", "T"}
    /\ nm[k + 2] \in {"n", "N"}

\* the name, compared case-insensitively, starts or ends with "btn"
BtnName(nm) == Len(nm) >= 3 /\ (BtnAt(nm, 1) \/ BtnAt(nm, Len(nm) - 2))

\* C2: a field whose name starts or ends with "btn" (case-insensitively) is
\* rendered as a button whose id and name are the field name, and as no input,
\* whatever its type, value, label and uiType are.
C2_BtnNamedFieldIsButton ==
    phase = "built" =>
        \A i \in Indices(tree) :
            (IsKind(tree[i], s_field) /\ tree[i].attrs.name # None
                                      /\ BtnName(tree[i].attrs.name[1])) =>
                LET out == EmittedBy(html_doc, i)
                    nm == tree[i].attrs.name[1]
                IN /\ \E k \in Indices(out) :
                          out[k].el = "button" /\ out[k].id = nm /\ out[k].name = nm
                   /\ \A k \in Indices(out) : out[k].el # "input"

\* a field named like "xBtn" (ending, not starting, with btn in mixed case),
\* with a declared type and value, has been rendered as a button
C2_Witness ==
    /\ phase = "built"
    /\ \E i \in Indices(tree) :
          /\ IsKind(tree[i], s_field)
          /\ tree[i].attrs.name # None
          /\ LET nm == tree[i].attrs.name[1]
             IN Len(nm) = 4 /\ BtnAt(nm, 2) /\ ~BtnAt(nm, 1) /\ nm[2] = "B"
          /\ tree[i].attrs.type # None
          /\ \E k \in Indices(html_doc.body) :
                html_doc.body[k].node = i /\ html_doc.body[k].el = "button"

\* ------------------------------------------------------------------ C3
\* an "item" node: an element whose tag is item, as written
IsItem(node) == node.isElement /\ node.ns = "" /\ node.local = s_item

\* the item nodes below node i, in document order
ItemsBelow(tr, i) ==
    SelectSeq([k \in Indices(tr) |-> k], LAMBDA j : Below(tr, j, i) /\ IsItem(tr[j]))

Rendered(doc, i) == EmittedBy(doc, i) # <<>>

FirstRun(tr) == build_ui_interpreter_stacked(tr, FALSE)

\* C4: whatever runs came before, a run on a tree yields the output of a first
\* run on that tree; a tree without the cascade attribute gets no
\* linkage-behaviour script even after a run that set the flag.
C4_RunsAreHistoryIndependent ==
    phase = "built" =>
        /\ html_doc = FirstRun(tree).doc
        /\ cascade_required = FirstRun(tree).flag
        /\ ~HasCascadeAttribute(tree) => ~HasCascadeScript(html_doc)

\* a run on a tree without the attribute, begun with the flag an earlier run set
C4_Witness ==
    /\ phase = "built"
    /\ earlier_flag
    /\ ~HasCascadeAttribute(tree)
    /\ ~HasCascadeScript(html_doc)

\* ------------------------------------------------------------------ C5
IsScriptingNode(node) == node.isElement /\ node.ns = XFA_NS /\ node.local = s_script

\* the texts of the scripting nodes of the whole tree that have text, in
\* document order
ScriptingTexts(tr) ==
    LET at == SelectSeq([k \in Indices(tr) |-> k],
                        LAMBDA j : IsScriptingNode(tr[j]) /\ truthy(tr[j].text))
    IN [k \in Indices(at) |-> tr[at[k]].text[1]]

\* C5: the aggregated script is the text of every scripting node anywhere in
\* the tree that has text, in document order, once per node, joined by single
\* line breaks; nodes without text add nothing.
C5_AllScriptTextsAggregated ==
    phase = "built" => AggregatedScript(html_doc) = join(<<NL>>, ScriptingTexts(tree))

\* ------------------------------------------------------------------ C6
FixedParts == adapter \o xfa_runtime_js \o default_bindings_js

\* C6: the script section holds each fixed part once, in the order adapter and
\* translator, host and form shim, font stub, guarded executor, advanced
\* namespace, click dispatcher; the aggregated scripts stand between the
\* advanced namespace and the dispatcher; the linkage script stands first, and
\* only when the run required it.
C6_ScriptSectionOrder ==
    phase = "built" =>
        LET s == html_doc.script
        IN /\ \A k \in Indices(FixedParts) : Occurrences(s, FixedParts[k]) = 1
           /\ \A k \in 1..(Len(FixedParts) - 1) :
                  Index(s, FixedParts[k]) < Index(s, FixedParts[k + 1])
           /\ \A k \in Indices(s) :
                  (s[k] # NL /\ s[k] # cascade_js_text[1]
                             /\ \A j \in Indices(FixedParts) : s[k] # FixedParts[j]) =>
                      /\ Index(s, "window.xfa.advanced") < k
                      /\ k < Index(s, default_bindings_js[1])
           /\ AggregatedScript(html_doc) = extract_all_js(tree)
           /\ HasCascadeScript(html_doc) <=> cascade_required
           /\ HasCascadeScript(html_doc) =>
                  /\ Occurrences(s, cascade_js_text[1]) = 1
                  /\ s[1] = cascade_js_text[1]

\* a document with the linkage script and two aggregated scripts
C6_Witness ==
    /\ phase = "built"
    /\ HasCascadeScript(html_doc)
    /\ Len(AggregatedScript(html_doc)) = 3

\* ------------------------------------------------------------------ C8
\* C8: every emitted control (input, button, select) of a node with the cascade
\* attribute carries the attribute's value as its marker, and the flag is set;
\* a control of a node without the attribute carries no marker.
C8_ControlsCarryLinkageMarker ==
    phase = "built" =>
        \A k \in Indices(html_doc.body) :
            LET t == html_doc.body[k]
            IN t.el \in Controls =>
                   IF tree[t.node].attrs.cascade # None
                   THEN t.cascade_attr = tree[t.node].attrs.cascade /\ cascade_required
                   ELSE t.cascade_attr = None

\* ------------------------------------------------------------------ C7
\* C7: after an input event on a rendered control that carries a linkage
\* marker, every other rendered control with the same marker value (input,
\* button or select) holds that control's value, and every control with
\* another marker or none holds the value it had before.
C7_InputCopiedToAllLinkedControls ==
    (last.event = "input" /\ dom[last.target].rendered
                          /\ dom[last.target].cascade # None) =>
        \A k \in 1..Len(dom) :
            (dom[k].rendered /\ k # last.target) =>
                IF dom[k].cascade = dom[last.target].cascade
                THEN dom[k].value = dom[last.target].value
                ELSE dom[k].value = last.before[k]

\* ------------------------------------------------------------------ C9
\* C9: every click on a button, rendered or added later, is handled by the
\* dispatcher: with the legacy-script attribute the runtime-loaded flag is
\* true and the translated script has run with its failure caught; without
\* it the message box shows the default action message with the button's id
\* and no script runs.
C9_EveryButtonClickDispatched ==
    (last.event = "click" /\ dom[last.target].tagName = "button") =>
        /\ last.handled
        /\ ~last.escaped
        /\ IF dom[last.target].acrobat # None
           THEN /\ xfaRuntimeLoaded = "true"
                /\ last.code = translateAcrobatJS(dom[last.target].acrobat[1])
                /\ last.ran = Exec(last.code, defined).ran
           ELSE /\ last.messages = <<Message("Default action for ", dom[last.target].id)>>
                /\ last.ran = <<>>

\* ----------------------------------------------------------------- C10
\* C10: executeAsync runs the statements of the script it is given (up to a
\* statement that throws), logs a failure and lets none reach the caller.
C10_ExecuteAsyncRunsTheScript ==
    last.event = "executeAsync" =>
        /\ last.ran = Exec(last.code, defined).ran
        /\ Exec(last.code, defined).threw => last.logged
        /\ ~last.escaped

\* ----------------------------------------------------------------- C11
RecognisedKinds ==
    { s_subform, s_field, s_button, s_text, s_textedit, s_numericedit,
      s_choicelist, s_draw, s_exclgroup, s_checkbutton }

\* an element whose lower-cased local name is none of the ten kinds
Unrecognised(node) == node.isElement /\ lower(node.local) \notin RecognisedKinds

\* the renderer is applied to node i: it is the node the run starts from, or a
\* child of a node whose rule renders its children
RECURSIVE Visited(_, _)
Visited(tr, i) ==
    \/ i = template_of(tr)
    \/ /\ tr[i].parent # 0
       /\ Visited(tr, tr[i].parent)
       /\ LET p == tr[tr[i].parent]
          IN Unrecognised(p) \/ IsKind(p, s_subform) \/ IsKind(p, s_draw)

\* the part of the document's body that node i and the nodes below it emitted
Fragment(doc, tr, i) ==
    SelectSeq(doc.body, LAMBDA t : i \in ancestors_or_self(tr, t.node))

\* the fragments of the given nodes, each rendered by itself, one after another
RECURSIVE FragmentsOf(_, _)
FragmentsOf(tr, kids) ==
    IF kids = <<>> THEN <<>>
    ELSE process_element(tr, Head(kids), FALSE).html \o FragmentsOf(tr, Tail(kids))

\* the tree without its nodes that are not elements (they have no children)
WithoutForeign(tr) ==
    LET kept == SelectSeq([k \in Indices(tr) |-> k], LAMBDA j : tr[j].isElement)
        moved(j) == IF j = 0 THEN 0 ELSE Index(kept, j)
    IN [k \in Indices(kept) |-> [tr[kept[k]] EXCEPT !.parent = moved(@)]]

\* markup as text: without the record of which node emitted it
Markup(body) == [k \in Indices(body) |-> [body[k] EXCEPT !.node = 0]]

\* C11: a rendered element whose lower-cased local name is none of the ten
\* kinds emits no markup of its own, and its fragment is the fragments of its
\* children in document order; a node that is not an element (a comment, a
\* processing instruction) renders to the empty fragment, and the body is the
\* body of the same tree without such nodes, so its siblings render as they
\* would without it.
C11_MissesAreTransparentForeignNodesEmpty ==
    phase = "built" =>
        /\ \A i \in Indices(tree) :
               (Unrecognised(tree[i]) /\ Visited(tree, i)) =>
                   /\ EmittedBy(html_doc, i) = <<>>
                   /\ Fragment(html_doc, tree, i) = FragmentsOf(tree, children(tree, i))
        /\ \A i \in Indices(tree) :
               ~tree[i].isElement =>
                   /\ process_element(tree, i, FALSE).html = <<>>
                   /\ Fragment(html_doc, tree, i) = <<>>
        /\ Markup(html_doc.body) = Markup(FirstRun(WithoutForeign(tree)).doc.body)

\* a rendered element of an unrecognised tag whose children are a comment and,
\* after it, an element that was rendered
C11_Witness ==
    /\ phase = "built"
    /\ \E p, c, s \in Indices(tree) :
          /\ Unrecognised(tree[p]) /\ Visited(tree, p)
          /\ ~tree[c].isElement /\ tree[c].parent = p
          /\ tree[s].parent = p /\ c < s
          /\ Rendered(html_doc, s)

====
